---- MODULE Spec2Model ----
(***************************************************************************)
(* Calibration JSON Setpoint Builder (CalPointsTool).                      *)
(*                                                                         *)
(* The form component keeps its fields as texts, normalises every edit     *)
(* with clampNumberOrEmpty, and derives the exported payload with          *)
(* buildPayload, the validity gate isFormValid and the encoder jsonString. *)
(*                                                                         *)
(* A text is a sequence of one-character strings.  A JavaScript number is  *)
(* a record [k, m, x]: k = "fin" denotes m * 10^x (m has no trailing       *)
(* decimal zero, and zero is m = 0, x = 0), k = "nan", "inf" and "ninf"    *)
(* denote NaN, +Infinity and -Infinity.  The texts of the model are short  *)
(* enough (at most 9 significant digits) for the decimal value to be what  *)
(* Number() and String() exchange exactly; -0 and +0 are one value, since  *)
(* comparison, String() and JSON.stringify() do not tell them apart.       *)
(***************************************************************************)
EXTENDS Integers, Sequences, FiniteSets, TLC

\* ------------------------------------------------------------------------
\* JavaScript numbers
\* ------------------------------------------------------------------------

NaN == [k |-> "nan", m |-> 0, x |-> 0]

PosInfinity == [k |-> "inf", m |-> 0, x |-> 0]

NegInfinity == [k |-> "ninf", m |-> 0, x |-> 0]

Abs(i) == IF i < 0 THEN -i ELSE i

RECURSIVE Pow10(_)
Pow10(n) == IF n <= 0 THEN 1 ELSE 10 * Pow10(n - 1)

RECURSIVE NumDigits(_)
NumDigits(i) == IF i < 10 THEN 1 ELSE 1 + NumDigits(i \div 10)

\* The number m * 10^x in normal form (no trailing decimal zero in m).
RECURSIVE Fin(_, _)
Fin(m, x) ==
  IF m = 0 THEN [k |-> "fin", m |-> 0, x |-> 0]
  ELSE IF m % 10 = 0 THEN Fin(m \div 10, x + 1)
  ELSE [k |-> "fin", m |-> m, x |-> x]

\* A number literal of the source (1, -95, 100, ...).
Lit(i) == Fin(i, 0)

\* Exponent of the leading digit: n = d.ddd * 10^SciExp(n).
SciExp(n) == NumDigits(Abs(n.m)) + n.x - 1

\* Whether a * 10^(e - digits + 1) exceeds Number.MAX_VALUE,
\* 1.7976931348623157e308 (a has at most 9 digits).
Overflows(a, e) == e > 308 \/ (e = 308 /\ a * Pow10(9 - NumDigits(a)) > 179769313)

\* The double nearest to the non-zero n, whose leading exponent is e:
\* overflow gives an infinity, underflow below Number.MIN_VALUE (5e-324) 0.
RoundAt(n, e) ==
  IF Overflows(Abs(n.m), e) THEN (IF n.m < 0 THEN NegInfinity ELSE PosInfinity)
  ELSE IF e < -324 THEN Fin(0, 0)
  ELSE n

RoundFin(n) == IF n.m = 0 THEN n ELSE RoundAt(n, SciExp(n))

\* The double nearest to m * 10^x.
Round(m, x) == RoundFin(Fin(m, x))

NumberIsNaN(n) == n.k = "nan"

NumberIsFinite(n) == n.k = "fin"

Sign(i) == IF i < 0 THEN -1 ELSE IF i = 0 THEN 0 ELSE 1

\* |a| < |b| for two non-zero numbers of da and db digits with the same
\* leading exponent: the mantissas are compared at the same width.
AlignedLess(a, b, da, db) == Abs(a.m) * Pow10(db - da) < Abs(b.m) * Pow10(da - db)

\* |a| < |b| for two non-zero numbers of leading exponents ea and eb.
MagnitudeLess(a, b, ea, eb) ==
  ea < eb \/ (ea = eb /\ AlignedLess(a, b, NumDigits(Abs(a.m)), NumDigits(Abs(b.m))))

AbsLess(a, b) == MagnitudeLess(a, b, SciExp(a), SciExp(b))

SignedLess(a, b, sa, sb) ==
  IF sa # sb THEN sa < sb
  ELSE IF sa = 0 THEN FALSE
  ELSE IF sa = 1 THEN AbsLess(a, b)
  ELSE AbsLess(b, a)

\* a < b on two finite numbers.
FinLess(a, b) == SignedLess(a, b, Sign(a.m), Sign(b.m))

\* The < of JavaScript: false as soon as one side is NaN.
Less(a, b) ==
  IF a.k = "nan" \/ b.k = "nan" THEN FALSE
  ELSE IF a.k = "ninf" THEN b.k # "ninf"
  ELSE IF b.k = "inf" THEN a.k # "inf"
  ELSE IF a.k = "inf" \/ b.k = "ninf" THEN FALSE
  ELSE FinLess(a, b)

Greater(a, b) == Less(b, a)

\* a <= b and a >= b of JavaScript.
LessEq(a, b) == a.k # "nan" /\ b.k # "nan" /\ ~Less(b, a)

GreaterEq(a, b) == LessEq(b, a)

\* ------------------------------------------------------------------------
\* Texts, Number(text) and String(number)
\* ------------------------------------------------------------------------

DecDigits == {"0", "1", "2", "3", "4", "5", "6", "7", "8", "9"}

OctDigits == {"0", "1", "2", "3", "4", "5", "6", "7"}

BinDigits == {"0", "1"}

HexDigits == DecDigits \cup {"a", "b", "c", "d", "e", "f", "A", "B", "C", "D", "E", "F"}

WhiteSpace == {" ", "\t", "\n"}

InfinityText == <<"I", "n", "f", "i", "n", "i", "t", "y">>

DigitVal(c) ==
  CASE c = "0" -> 0 [] c = "1" -> 1 [] c = "2" -> 2 [] c = "3" -> 3
    [] c = "4" -> 4 [] c = "5" -> 5 [] c = "6" -> 6 [] c = "7" -> 7
    [] c = "8" -> 8 [] c = "9" -> 9
    [] c \in {"a", "A"} -> 10 [] c \in {"b", "B"} -> 11
    [] c \in {"c", "C"} -> 12 [] c \in {"d", "D"} -> 13
    [] c \in {"e", "E"} -> 14 [] c \in {"f", "F"} -> 15

DigitChar(d) ==
  CASE d = 0 -> "0" [] d = 1 -> "1" [] d = 2 -> "2" [] d = 3 -> "3"
    [] d = 4 -> "4" [] d = 5 -> "5" [] d = 6 -> "6" [] d = 7 -> "7"
    [] d = 8 -> "8" [] d = 9 -> "9"

\* The value of a sequence of digits in the given base (0 for no digit).
RECURSIVE DigitsValue(_, _)
DigitsValue(s, base) ==
  IF s = <<>> THEN 0
  ELSE DigitsValue(SubSeq(s, 1, Len(s) - 1), base) * base + DigitVal(s[Len(s)])

\* The decimal digits of a natural number.
RECURSIVE Digits(_)
Digits(i) ==
  IF i < 10 THEN <<DigitChar(i)>> ELSE Append(Digits(i \div 10), DigitChar(i % 10))

RECURSIVE Zeros(_)
Zeros(n) == IF n <= 0 THEN <<>> ELSE <<"0">> \o Zeros(n - 1)

AllIn(s, S) == \A i \in 1..Len(s) : s[i] \in S

Least(S) == CHOOSE i \in S : \A j \in S : i <= j

Greatest(S) == CHOOSE i \in S : \A j \in S : i >= j

FirstIn(hits) == IF hits = {} THEN 0 ELSE Least(hits)

\* Index of the first character of s that is in S, 0 when there is none.
IndexOf(s, S) == FirstIn({i \in 1..Len(s) : s[i] \in S})

\* s cut down to the span of the positions ink.
Span(s, ink) == IF ink = {} THEN <<>> ELSE SubSeq(s, Least(ink), Greatest(ink))

\* s without its leading and trailing white space.
Trim(s) == Span(s, {i \in 1..Len(s) : s[i] \notin WhiteSpace})

Negate(n) ==
  CASE n.k = "fin" -> [n EXCEPT !.m = -n.m]
    [] n.k = "inf" -> NegInfinity
    [] n.k = "ninf" -> PosInfinity
    [] OTHER -> n

\* The digits of an exponent with their sign: its value, or not ok.
ExponentDigits(ds, sign) ==
  IF ds # <<>> /\ AllIn(ds, DecDigits)
  THEN [ok |-> TRUE, e |-> sign * DigitsValue(ds, 10)]
  ELSE [ok |-> FALSE, e |-> 0]

\* ExponentPart after its e: [+-] digits.
ExponentPart(expo) ==
  IF expo # <<>> /\ expo[1] = "-" THEN ExponentDigits(Tail(expo), -1)
  ELSE IF expo # <<>> /\ expo[1] = "+" THEN ExponentDigits(Tail(expo), 1)
  ELSE ExponentDigits(expo, 1)

NoExponent == [ok |-> TRUE, e |-> 0]

\* The digits ds scaled by 10^x, nz being the positions of their non-zero
\* digits: the zeros before the first and after the last of them carry no
\* value, the latter only scale.
Significand(ds, nz, x) ==
  IF nz = {} THEN Fin(0, 0)
  ELSE Round(DigitsValue(Span(ds, nz), 10), x + Len(ds) - Greatest(nz))

SignificandOf(ds, x) == Significand(ds, {i \in 1..Len(ds) : ds[i] # "0"}, x)

\* digits [. digits] or . digits, scaled by the exponent ex.
DecimalValue(intPart, fracPart, ex) ==
  IF /\ ex.ok
     /\ AllIn(intPart, DecDigits)
     /\ AllIn(fracPart, DecDigits)
     /\ (intPart # <<>> \/ fracPart # <<>>)
  THEN SignificandOf(intPart \o fracPart, ex.e - Len(fracPart))
  ELSE NaN

\* The mantissa, its first decimal point being at dot (0 for none).
MantissaAt(mant, dot, ex) ==
  IF dot = 0 THEN DecimalValue(mant, <<>>, ex)
  ELSE DecimalValue(SubSeq(mant, 1, dot - 1), SubSeq(mant, dot + 1, Len(mant)), ex)

Mantissa(mant, ex) == MantissaAt(mant, IndexOf(mant, {"."}), ex)

\* The literal u, its first e or E being at ePos (0 for none).
DecimalAt(u, ePos) ==
  IF ePos = 0 THEN Mantissa(u, NoExponent)
  ELSE Mantissa(SubSeq(u, 1, ePos - 1), ExponentPart(SubSeq(u, ePos + 1, Len(u))))

\* StrUnsignedDecimalLiteral: Infinity, digits [. digits] [exponent] or
\* . digits [exponent]; anything else is NaN.
StrUnsignedDecimal(u) ==
  IF u = InfinityText THEN PosInfinity ELSE DecimalAt(u, IndexOf(u, {"e", "E"}))

\* StrDecimalLiteral: an optional sign and an unsigned literal.
StrDecimal(t) ==
  IF t[1] = "-" THEN Negate(StrUnsignedDecimal(Tail(t)))
  ELSE StrUnsignedDecimal(IF t[1] = "+" THEN Tail(t) ELSE t)

\* 0x, 0o and 0b literals (no sign allowed).
NonDecimalPrefix(t) ==
  Len(t) >= 2 /\ t[1] = "0" /\ t[2] \in {"x", "X", "o", "O", "b", "B"}

RadixOf(c) == IF c \in {"x", "X"} THEN 16 ELSE IF c \in {"o", "O"} THEN 8 ELSE 2

DigitsOfRadix(base) ==
  IF base = 16 THEN HexDigits ELSE IF base = 8 THEN OctDigits ELSE BinDigits

RadixValue(rest, base) ==
  IF rest # <<>> /\ AllIn(rest, DigitsOfRadix(base))
  THEN Round(DigitsValue(rest, base), 0)
  ELSE NaN

NonDecimal(t) == RadixValue(SubSeq(t, 3, Len(t)), RadixOf(t[2]))

\* StringToNumber on a text without surrounding white space.
StringNumericLiteral(t) ==
  IF t = <<>> THEN Fin(0, 0)
  ELSE IF NonDecimalPrefix(t) THEN NonDecimal(t)
  ELSE StrDecimal(t)

\* Number(v) on a string: white space is trimmed, the empty text is 0, a
\* text that is no StringNumericLiteral is NaN.
Number(v) == StringNumericLiteral(Trim(v))

\* e+N or e-N.
ExponentText(e) == <<"e">> \o (IF e < 0 THEN <<"-">> ELSE <<"+">>) \o Digits(Abs(e))

\* Number::toString of the k digits s with the decimal point after p digits.
Layout(s, k, p) ==
  IF k <= p /\ p <= 21 THEN s \o Zeros(p - k)
  ELSE IF 0 < p /\ p <= 21 THEN SubSeq(s, 1, p) \o <<".">> \o SubSeq(s, p + 1, k)
  ELSE IF -6 < p /\ p <= 0 THEN <<"0", ".">> \o Zeros(-p) \o s
  ELSE (IF k = 1 THEN s ELSE <<s[1], ".">> \o SubSeq(s, 2, k)) \o ExponentText(p - 1)

DigitsToString(s, x) == Layout(s, Len(s), Len(s) + x)

\* String(n), Number::toString in radix 10.
String(n) ==
  CASE n.k = "nan" -> <<"N", "a", "N">>
    [] n.k = "inf" -> InfinityText
    [] n.k = "ninf" -> <<"-">> \o InfinityText
    [] n.m = 0 -> <<"0">>
    [] OTHER -> (IF n.m < 0 THEN <<"-">> ELSE <<>>) \o DigitsToString(Digits(Abs(n.m)), n.x)

\* ------------------------------------------------------------------------
\* The pure functions of the component
\* ------------------------------------------------------------------------

\* An absent bound (opts undefined, or opts.min / opts.max undefined).
Undefined == [k |-> "undefined", m |-> 0, x |-> 0]

NoOpts == [min |-> Undefined, max |-> Undefined]

\* Mutant of clampParsed: the max bound is not applied.
clampParsedNoMax(n, opts) ==
  IF NumberIsNaN(n) THEN <<>>
  ELSE IF opts.min # Undefined /\ Less(n, opts.min) THEN String(opts.min)
  ELSE String(n)

\* Mutant of clampParsed: the min bound is not applied.
clampParsedNoMin(n, opts) ==
  IF NumberIsNaN(n) THEN <<>>
  ELSE IF opts.max # Undefined /\ Greater(n, opts.max) THEN String(opts.max)
  ELSE String(n)

\* clampNumberOrEmpty once v is parsed to n.
clampParsed(n, opts) ==
  IF NumberIsNaN(n) THEN <<>>
  ELSE IF opts.min # Undefined /\ Less(n, opts.min) THEN String(opts.min)
  ELSE IF opts.max # Undefined /\ Greater(n, opts.max) THEN String(opts.max)
  ELSE String(n)

clampNumberOrEmpty(v, opts) ==
  IF v = <<>> \/ v = <<"-">> \/ v = <<".">> THEN <<>>
  ELSE clampParsed(Number(v), opts)

Reading(systemId, parameter, nominal) ==
  [system_id |-> systemId, parameter |-> parameter, nominal |-> nominal]

MapSeq(s, F(_)) == [i \in 1..Len(s) |-> F(s[i])]

NominalOf(h) == h.nominal

NonEmptyText(v) == v # <<>>

\* Mutant of HumidityInRange: the upper end 100 is excluded.
HumidityBelowMax(n) == NumberIsFinite(n) /\ GreaterEq(n, Lit(0)) /\ Less(n, Lit(100))

\* Mutant of HumidityInRange: the ends 0 and 100 are excluded.
HumidityInOpenRange(n) ==
  NumberIsFinite(n) /\ Greater(n, Lit(0)) /\ Less(n, Lit(100))

HumidityInRange(n) ==
  NumberIsFinite(n) /\ GreaterEq(n, Lit(0)) /\ LessEq(n, Lit(100))

\* Mutant of humidityValues: the empty texts are not filtered out.
humidityValuesKeepEmpty(g) ==
  SelectSeq(MapSeq(MapSeq(g.humidities, NominalOf), Number), HumidityInRange)

\* g.humidities.map(nominal).filter(non-empty).map(Number).filter(in range)
humidityValues(g) ==
  SelectSeq(MapSeq(SelectSeq(MapSeq(g.humidities, NominalOf), NonEmptyText), Number),
            HumidityInRange)

\* Mutant of setpoint: the Humidity readings come before the Temperature.
setpointHumidityFirst(systemId, g, tVal) ==
  LET HumidityReading(rh) == Reading(systemId, "Humidity", rh)
  IN  MapSeq(humidityValues(g), HumidityReading) \o <<Reading(systemId, "Temperature", tVal)>>

\* Mutant of setpoint: a systemId that is not finite is replaced by 1.
setpointDefaultId(systemId, g, tVal) ==
  LET sid == IF NumberIsFinite(systemId) THEN systemId ELSE Lit(1)
      HumidityReading(rh) == Reading(sid, "Humidity", rh)
  IN  <<Reading(sid, "Temperature", tVal)>> \o MapSeq(humidityValues(g), HumidityReading)

\* The Setpoint of a group whose temperature is tVal.
setpoint(systemId, g, tVal) ==
  LET HumidityReading(rh) == Reading(systemId, "Humidity", rh)
  IN  <<Reading(systemId, "Temperature", tVal)>> \o MapSeq(humidityValues(g), HumidityReading)

\* Mutant of pushSetpoint: an empty temperature is skipped as well.
pushSetpointNonEmpty(systemId, g, tVal, out) ==
  IF ~NumberIsFinite(tVal) \/ g.temperature = <<>> THEN out
  ELSE Append(out, setpoint(systemId, g, tVal))

\* Mutant of pushSetpoint: a temperature of white space only is skipped.
pushSetpointNonBlank(systemId, g, tVal, out) ==
  IF ~NumberIsFinite(tVal) \/ Trim(g.temperature) = <<>> THEN out
  ELSE Append(out, setpoint(systemId, g, tVal))

\* Mutant of pushSetpoint: the Setpoint is put in front of the output.
pushSetpointFront(systemId, g, tVal, out) ==
  IF ~NumberIsFinite(tVal) THEN out ELSE <<setpoint(systemId, g, tVal)>> \o out

\* One turn of the loop of buildPayload: out after the group g, whose
\* temperature is tVal.
pushSetpoint(systemId, g, tVal, out) ==
  IF ~NumberIsFinite(tVal) THEN out ELSE Append(out, setpoint(systemId, g, tVal))

\* The loop of buildPayload from group i on, out being what was pushed so far.
RECURSIVE buildLoop(_, _, _, _)
buildLoop(systemId, groups, i, out) ==
  IF i > Len(groups) THEN out
  ELSE buildLoop(systemId, groups, i + 1,
                 pushSetpoint(systemId, groups[i], Number(groups[i].temperature), out))

buildPayload(systemId, groups) == buildLoop(systemId, groups, 1, <<>>)

parsedSystemId(systemIdText) == Number(systemIdText)

\* The checks of isFormValid on a non-empty humidity parsed to rh.
humidityPasses(rh) ==
  IF ~NumberIsFinite(rh) THEN FALSE
  ELSE IF Less(rh, Lit(0)) \/ Greater(rh, Lit(100)) THEN FALSE
  ELSE TRUE

\* The inner loop of isFormValid over the humidities of one group, from j on.
RECURSIVE humiditiesValid(_, _)
humiditiesValid(hs, j) ==
  IF j > Len(hs) THEN TRUE
  ELSE IF hs[j].nominal # <<>> /\ ~humidityPasses(Number(hs[j].nominal)) THEN FALSE
  ELSE humiditiesValid(hs, j + 1)

\* The outer loop of isFormValid over the groups, from i on.
RECURSIVE groupsValid(_, _)
groupsValid(groups, i) ==
  IF i > Len(groups) THEN TRUE
  ELSE IF groups[i].temperature = <<>> THEN FALSE
  ELSE IF ~NumberIsFinite(Number(groups[i].temperature)) THEN FALSE
  ELSE IF ~humiditiesValid(groups[i].humidities, 1) THEN FALSE
  ELSE groupsValid(groups, i + 1)

\* Mutant of isFormValid: a system id of zero is accepted.
isFormValidNonNegative(parsedId, groups) ==
  IF ~NumberIsFinite(parsedId) \/ Less(parsedId, Lit(0)) THEN FALSE
  ELSE groupsValid(groups, 1)

isFormValid(parsedId, groups) ==
  IF ~NumberIsFinite(parsedId) \/ LessEq(parsedId, Lit(0)) THEN FALSE
  ELSE groupsValid(groups, 1)

isPayloadReady(formValid, payload) == formValid /\ Len(payload) > 0

\* ------------------------------------------------------------------------
\* JSON.stringify(payload), as the sequence of its tokens: punctuation,
\* quoted keys and strings, and the characters of each number.
\* ------------------------------------------------------------------------

StringifyNumber(n) == IF NumberIsFinite(n) THEN String(n) ELSE <<"null">>

StringifyReading(r) ==
  <<"{", "\"system_id\"", ":">> \o StringifyNumber(r.system_id)
  \o <<",", "\"parameter\"", ":">>
  \o (IF r.parameter = "Temperature" THEN <<"\"Temperature\"">> ELSE <<"\"Humidity\"">>)
  \o <<",", "\"nominal\"", ":">> \o StringifyNumber(r.nominal) \o <<"}">>

\* The Readings of a Setpoint from the i-th on, separated by commas.
RECURSIVE StringifyReadings(_, _)
StringifyReadings(sp, i) ==
  IF i > Len(sp) THEN <<>>
  ELSE (IF i > 1 THEN <<",">> ELSE <<>>) \o StringifyReading(sp[i])
       \o StringifyReadings(sp, i + 1)

StringifySetpoint(sp) == <<"[">> \o StringifyReadings(sp, 1) \o <<"]">>

\* The Setpoints of a payload from the i-th on, separated by commas.
RECURSIVE StringifySetpoints(_, _)
StringifySetpoints(payload, i) ==
  IF i > Len(payload) THEN <<>>
  ELSE (IF i > 1 THEN <<",">> ELSE <<>>) \o StringifySetpoint(payload[i])
       \o StringifySetpoints(payload, i + 1)

JSONstringify(payload) == <<"[">> \o StringifySetpoints(payload, 1) \o <<"]">>

\* A line break followed by the indentation of depth levels of two spaces.
RECURSIVE Spaces(_)
Spaces(n) == IF n <= 0 THEN <<>> ELSE <<" ">> \o Spaces(n - 1)

Break(depth) == <<"\n">> \o Spaces(2 * depth)

\* JSON.stringify(value, null, 2) of a Reading at nesting depth 2.
IndentReading(r) ==
  <<"{">> \o Break(3) \o <<"\"system_id\"", ":", " ">> \o StringifyNumber(r.system_id)
  \o <<",">> \o Break(3) \o <<"\"parameter\"", ":", " ">>
  \o (IF r.parameter = "Temperature" THEN <<"\"Temperature\"">> ELSE <<"\"Humidity\"">>)
  \o <<",">> \o Break(3) \o <<"\"nominal\"", ":", " ">> \o StringifyNumber(r.nominal)
  \o Break(2) \o <<"}">>

RECURSIVE IndentReadings(_, _)
IndentReadings(sp, i) ==
  IF i > Len(sp) THEN <<>>
  ELSE (IF i > 1 THEN <<",">> ELSE <<>>) \o Break(2) \o IndentReading(sp[i])
       \o IndentReadings(sp, i + 1)

\* An empty array is written [] at any depth.
IndentSetpoint(sp) ==
  IF sp = <<>> THEN <<"[", "]">>
  ELSE <<"[">> \o IndentReadings(sp, 1) \o Break(1) \o <<"]">>

RECURSIVE IndentSetpoints(_, _)
IndentSetpoints(payload, i) ==
  IF i > Len(payload) THEN <<>>
  ELSE (IF i > 1 THEN <<",">> ELSE <<>>) \o Break(1) \o IndentSetpoint(payload[i])
       \o IndentSetpoints(payload, i + 1)

\* JSON.stringify(payload, null, 2).
JSONstringifyIndented(payload) ==
  IF payload = <<>> THEN <<"[", "]">>
  ELSE <<"[">> \o IndentSetpoints(payload, 1) \o Break(0) \o <<"]">>

\* jsonString: JSON.stringify returns a string for every array of Readings
\* and does not throw on it, so neither "[]" fallback is taken.
jsonString(payload, isCompact) ==
  IF isCompact THEN JSONstringify(payload) ELSE JSONstringifyIndented(payload)

\* encodeURIComponent of one piece of JSON text: every character outside
\* A-Z a-z 0-9 - _ . ! ~ * ' ( ) becomes its %XX escape.
EncodePiece(c) ==
  CASE c = "[" -> "%5B" [] c = "]" -> "%5D" [] c = "{" -> "%7B" [] c = "}" -> "%7D"
    [] c = "," -> "%2C" [] c = ":" -> "%3A" [] c = " " -> "%20" [] c = "\n" -> "%0A"
    [] c = "+" -> "%2B"
    [] c = "\"system_id\"" -> "%22system_id%22"
    [] c = "\"parameter\"" -> "%22parameter%22"
    [] c = "\"nominal\"" -> "%22nominal%22"
    [] c = "\"Temperature\"" -> "%22Temperature%22"
    [] c = "\"Humidity\"" -> "%22Humidity%22"
    [] OTHER -> c

encodeURIComponent(text) == [i \in 1..Len(text) |-> EncodePiece(text[i])]

\* "data:application/json;charset=utf-8," + encodeURIComponent(jsonString)
dataHref(text) == <<"data:application/json;charset=utf-8,">> \o encodeURIComponent(text)

\* ------------------------------------------------------------------------
\* State
\* ------------------------------------------------------------------------

VARIABLES
  systemId,      \* useState("1"): the System ID field, a text
  groups,        \* useState([...]): the TGroup rows, in display order
  compact,       \* useState(true): the Compact JSON switch
  copied,        \* useState(false): the Copy button shows "Copied!"
  errorMsg,      \* useState(""): the message shown above the form
  testSummary,   \* useState(""): the status written by runSelfChecks
  downloadHref,  \* useState(""): the href kept for the download link
  hrefType,      \* useState(null): "blob", "data" or "null"
  rendered,      \* useMemo: jsonString and isPayloadReady of the last render
  effectDue,     \* whether the last render scheduled the download effect
  urlToRevoke,   \* the object URL that the cleanup of that effect revokes
  objectUrls,    \* the object URLs created and not revoked, with their text
  pendingWrites, \* the clipboard writeText calls awaited by handleCopy
  timers,        \* the pending setTimeout(() => setCopied(false), 1200)
  selected,      \* whether handleCopy selected the text of the output area
  mounted,       \* whether the mount effects have run
  unmounted,     \* whether the component was unmounted
  call           \* the last direct call of a pure function, with its result

\* What the download effect writes.
effectVars == <<downloadHref, hrefType, urlToRevoke, objectUrls>>

\* What handleCopy and the life cycle write.
copyVars == <<copied, pendingWrites, timers, selected, unmounted>>

exportVars == <<effectVars, copyVars>>

vars ==
  <<systemId, groups, compact, errorMsg, testSummary, mounted, call, rendered, effectDue,
    exportVars>>

formVars ==
  <<systemId, groups, compact, errorMsg, testSummary, mounted, rendered, effectDue, exportVars>>

NoCall == [fn |-> "none"]

\* ------------------------------------------------------------------------
\* Bounds and the inputs drawn within them
\* ------------------------------------------------------------------------

\* Longest text typed into clampNumberOrEmpty, over Alphabet.
MaxLen == 3

\* Most groups handed to buildPayload and to the derived values.
MaxGroups == 2

\* Most humidity entries of a group handed to buildPayload.
MaxHum == 3

\* Largest form (groups plus humidity entries) whose fields are edited, and
\* below which entries are added; larger forms are only reduced, reset or
\* reloaded.
MaxFormSize == 2

\* Most copies in flight: calls of writeText awaited, and the 1200 ms timers
\* of those that succeeded.
MaxPending == 2

Alphabet == {"0", "1", "5", "-", ".", "e", " ", "x"}

TextsUpTo(n) == UNION {[1..k -> Alphabet] : k \in 0..n}

\* Longer texts of interest: infinities, exponent forms, trailing zeros.
ExtraTexts ==
  { InfinityText, <<"-">> \o InfinityText,
    <<"-", "9", "5", ".", "0">>, <<"1", "e", "-", "7">>, <<"1", "e", "2", "1">>,
    <<"1", "e", "4", "0", "0">>, <<"-", "1", "e", "4", "0", "0">>,
    <<"1", "0", "0", ".", "5">>, <<"a", "b", "c">> }

ClampTexts == TextsUpTo(MaxLen) \cup ExtraTexts

\* The options of the three call sites, and a max-only option.
ClampOpts ==
  { NoOpts,
    [min |-> Lit(1), max |-> Undefined],
    [min |-> Lit(0), max |-> Lit(100)],
    [min |-> Undefined, max |-> Lit(5)] }

TempTexts ==
  { <<>>, <<" ">>, <<"a", "b", "c">>, InfinityText, <<"-", "9", "5", ".", "0">> }

HumTexts ==
  { <<>>, <<"a", "b", "c">>, <<"-", "5">>, <<"0">>, <<"3", "3", ".", "0">>,
    <<"1", "0", "0">>, <<"1", "2", "0">> }

HumTextsWide == { <<>>, <<"3", "3", ".", "0">> }

SysIdSamples == { Lit(1), Lit(0), Lit(-2), NaN, PosInfinity }

SystemIdTexts == { <<"1">>, <<>>, <<"-", "3">>, <<"a", "b", "c">>, InfinityText }

\* Entries with the given nominal texts, identified by their position (the
\* pure functions do not read the identifiers).
HumiditiesOf(texts) == [j \in 1..Len(texts) |-> [id |-> j, nominal |-> texts[j]]]

SeqsUpTo(S, n) == UNION {[1..k -> S] : k \in 0..n}

\* Groups with at most one humidity entry, in lists of up to MaxGroups.
WideGroups ==
  { [id |-> 0, temperature |-> t, humidities |-> HumiditiesOf(hs)] :
      t \in TempTexts, hs \in SeqsUpTo(HumTextsWide, 1) }

WideInputs == SeqsUpTo(WideGroups, MaxGroups)

DeepTempTexts == { <<"a", "b", "c">>, <<"-", "9", "5", ".", "0">> }

DeepSysIdSamples == { Lit(1), NaN }

DeepSystemIdTexts == { <<"1">>, <<"a", "b", "c">> }

\* One group with up to MaxHum humidity entries.
DeepInputs ==
  { << [id |-> 0, temperature |-> t, humidities |-> HumiditiesOf(hs)] >> :
      t \in DeepTempTexts, hs \in SeqsUpTo(HumTexts, MaxHum) }

\* Texts typed into the fields of the form: empty, not a number, fractional,
\* below and above the bounds of the field.
SystemIdTyped == { <<>>, <<"1", ".", "5">> }

TemperatureTyped == { <<>>, <<"-", "5">> }

HumidityTyped == { <<"-", "5">>, <<"1", "5", "0">>, <<"a", "b", "c">> }

\* ------------------------------------------------------------------------
\* Construction
\* ------------------------------------------------------------------------

\* uid(): an identifier that no entry of the form carries.  The source draws
\* it from Math.random() and Date.now(); the model takes the least unused one.
uid(used) == CHOOSE i \in 1..(Cardinality(used) + 1) :
               i \notin used /\ \A j \in 1..(Cardinality(used) + 1) : j \notin used => i <= j

HumidityIds(g) == {g.humidities[j].id : j \in 1..Len(g.humidities)}

UsedIds(gs) ==
  {gs[i].id : i \in 1..Len(gs)} \cup UNION {HumidityIds(gs[i]) : i \in 1..Len(gs)}

RECURSIVE FormSize(_)
FormSize(gs) ==
  IF gs = <<>> THEN 0 ELSE 1 + Len(gs[1].humidities) + FormSize(Tail(gs))

\* The memoized values of a component that is not on display.
NoDeps == [jsonString |-> <<>>, isPayloadReady |-> FALSE]

\* The dependencies [jsonString, isPayloadReady] of the download effect in a
\* render of the form state (sysText, gs, isCompact).
DepsOf(valid, payload, isCompact) ==
  [jsonString |-> jsonString(payload, isCompact),
   isPayloadReady |-> isPayloadReady(valid, payload)]

DepsParsed(pid, gs, isCompact) ==
  DepsOf(isFormValid(pid, gs), buildPayload(pid, gs), isCompact)

DepsIn(sysText, gs, isCompact) == DepsParsed(parsedSystemId(sysText), gs, isCompact)

\* Mutant of Commit: the effect depends on isPayloadReady alone.
CommitReadyOnly(deps) ==
  /\ rendered' = deps
  /\ effectDue' = (deps.isPayloadReady # rendered.isPayloadReady)

\* A render recomputes the memoized values and schedules the download
\* effect when one of its dependencies [jsonString, isPayloadReady] differs
\* from that of the render before.
Commit(deps) ==
  /\ rendered' = deps
  /\ effectDue' = (deps # rendered)

\* The render of the form state (sysText, gs, isCompact).
Render(sysText, gs, isCompact) == Commit(DepsIn(sysText, gs, isCompact))

\* The component is on display and the effects of its last render have
\* run: React runs them before it handles the next update.
Interactive == mounted /\ ~unmounted /\ ~effectDue

Init ==
  /\ systemId = <<"1">>
  /\ groups = << [id |-> 1, temperature |-> <<>>, humidities |-> <<>>] >>
  /\ compact = TRUE
  /\ errorMsg = ""
  /\ testSummary = ""
  /\ mounted = FALSE
  /\ call = NoCall
  /\ copied = FALSE
  /\ downloadHref = <<>>
  /\ hrefType = "null"
  /\ rendered = DepsIn(<<"1">>, << [id |-> 1, temperature |-> <<>>, humidities |-> <<>>] >>, TRUE)
  /\ effectDue = TRUE
  /\ urlToRevoke = <<>>
  /\ objectUrls = {}
  /\ pendingWrites = <<>>
  /\ timers = 0
  /\ selected = FALSE
  /\ unmounted = FALSE

\* ------------------------------------------------------------------------
\* runSelfChecks
\* ------------------------------------------------------------------------

t1Groups == << [id |-> "a", temperature |-> <<"-", "9", "5", ".", "0">>, humidities |-> <<>>] >>

expect1 == << <<Reading(Lit(1), "Temperature", Lit(-95))>> >>

t2Groups ==
  << [id |-> "b", temperature |-> <<"4", "0", ".", "0">>,
      humidities |-> << [id |-> "h1", nominal |-> <<"3", "3", ".", "0">>],
                        [id |-> "h2", nominal |-> <<"8", "0", ".", "0">>] >>] >>

expect2 ==
  << << Reading(Lit(1), "Temperature", Lit(40)),
        Reading(Lit(1), "Humidity", Lit(33)),
        Reading(Lit(1), "Humidity", Lit(80)) >> >>

t3Groups ==
  << [id |-> "c", temperature |-> <<"4", "0", ".", "0">>,
      humidities |-> << [id |-> "h1", nominal |-> <<>>] >>] >>

expect3 == << <<Reading(Lit(2), "Temperature", Lit(40))>> >>

t4Groups ==
  << [id |-> "d1", temperature |-> <<"0", ".", "0">>, humidities |-> <<>>],
     [id |-> "d2", temperature |-> <<"4", "0", ".", "0">>,
      humidities |-> << [id |-> "h1", nominal |-> <<"3", "3">>] >>] >>

expect4 ==
  << << Reading(Lit(3), "Temperature", Lit(0)) >>,
     << Reading(Lit(3), "Temperature", Lit(40)), Reading(Lit(3), "Humidity", Lit(33)) >> >>

t5Groups ==
  << [id |-> "e", temperature |-> <<"2", "5", ".", "0">>,
      humidities |-> << [id |-> "x", nominal |-> <<"-", "5">>],
                        [id |-> "y", nominal |-> <<"1", "2", "0">>],
                        [id |-> "z", nominal |-> <<"5", "0">>] >>] >>

expect5 ==
  << << Reading(Lit(4), "Temperature", Lit(25)), Reading(Lit(4), "Humidity", Lit(50)) >> >>

t6Groups ==
  << [id |-> "f", temperature |-> <<"1", "0">>,
      humidities |-> << [id |-> "n", nominal |-> <<"a", "b", "c">>],
                        [id |-> "m", nominal |-> <<"7", "5">>] >>] >>

expect6 ==
  << << Reading(Lit(5), "Temperature", Lit(10)), Reading(Lit(5), "Humidity", Lit(75)) >> >>

\* ok1 .. ok6 of runSelfChecks.
selfCheckResults ==
  << JSONstringify(buildPayload(Lit(1), t1Groups)) = JSONstringify(expect1),
     JSONstringify(buildPayload(Lit(1), t2Groups)) = JSONstringify(expect2),
     JSONstringify(buildPayload(Lit(2), t3Groups)) = JSONstringify(expect3),
     JSONstringify(buildPayload(Lit(3), t4Groups)) = JSONstringify(expect4),
     JSONstringify(buildPayload(Lit(4), t5Groups)) = JSONstringify(expect5),
     JSONstringify(buildPayload(Lit(5), t6Groups)) = JSONstringify(expect6) >>

\* The summary text for passedCount of total checks passed.
summaryText(passedCount, total) ==
  (IF passedCount = total THEN "Self-checks passed (" ELSE "Self-checks failed (")
  \o ToString(passedCount) \o "/" \o ToString(total) \o ")."

\* passedCount of results, reported over results.length.
summaryOf(results) ==
  summaryText(Cardinality({i \in 1..Len(results) : results[i]}), Len(results))

\* The try block of runSelfChecks: buildPayload and JSON.stringify do not
\* throw on the six literal inputs, so the catch branch is never entered.
selfCheckSummary == summaryOf(selfCheckResults)

runSelfChecks ==
  /\ Interactive
  /\ testSummary' = selfCheckSummary
  /\ UNCHANGED <<systemId, groups, compact, errorMsg, mounted, call, rendered, effectDue, exportVars>>

\* ------------------------------------------------------------------------
\* The download effect
\* ------------------------------------------------------------------------

\* The object URL numbered n (a blob: URL).
ObjectUrl(n) == <<"blob:", ToString(n)>>

\* URL.createObjectURL returns a URL that names no other live object: the
\* least-numbered URL that is not live.  The effect stores the new URL in
\* downloadHref in the step that revokes the old one, so no revoked URL is
\* kept that the new one could be confused with.
createObjectURL(live) ==
  ObjectUrl(CHOOSE n \in 1..(Cardinality(live) + 1) :
              /\ ObjectUrl(n) \notin {u.url : u \in live}
              /\ \A k \in 1..(n - 1) : ObjectUrl(k) \in {u.url : u \in live})

\* Mutant of revokeObjectURL: nothing is released.
revokeNothing(urls, url) == urls

\* URL.revokeObjectURL(url); the cleanup calls it when urlToRevoke is set.
revokeObjectURL(urls, url) == {u \in urls : u.url # url}

\* The effect found the form not export-ready.
EffectNotReady(live) ==
  /\ downloadHref' = <<>>
  /\ hrefType' = "null"
  /\ urlToRevoke' = <<>>
  /\ objectUrls' = live

\* new Blob and URL.createObjectURL succeeded.
EffectBlob(live, text, url) ==
  /\ downloadHref' = url
  /\ hrefType' = "blob"
  /\ urlToRevoke' = url
  /\ objectUrls' = live \cup {[url |-> url, text |-> text]}

\* new Blob or URL.createObjectURL threw: the data: URI fallback.  The text
\* is ASCII, so encodeURIComponent does not throw and the inner catch is
\* not entered.
EffectData(live, text) ==
  /\ downloadHref' = dataHref(text)
  /\ hrefType' = "data"
  /\ urlToRevoke' = <<>>
  /\ objectUrls' = live

\* The cleanup of the previous run, then the body of the effect for the
\* dependencies deps; live are the object URLs left by the cleanup.
EffectRun(deps, live) ==
  /\ effectDue' = FALSE
  /\ IF ~deps.isPayloadReady THEN EffectNotReady(live)
     ELSE \/ EffectBlob(live, deps.jsonString, createObjectURL(live))
          \/ EffectData(live, deps.jsonString)

\* The download effect scheduled by the last render.
DownloadEffect ==
  /\ mounted
  /\ ~unmounted
  /\ effectDue
  /\ EffectRun(rendered, revokeObjectURL(objectUrls, urlToRevoke))
  /\ UNCHANGED <<systemId, groups, compact, errorMsg, testSummary, mounted, call, rendered,
                 copied, pendingWrites, timers, selected, unmounted>>

\* The effects of the first render, in the order of their declaration: the
\* download effect, then runSelfChecks().
Mount ==
  /\ ~mounted
  /\ ~unmounted
  /\ mounted' = TRUE
  /\ EffectRun(rendered, objectUrls)
  /\ testSummary' = selfCheckSummary
  /\ UNCHANGED <<systemId, groups, compact, errorMsg, call, rendered,
                 copied, pendingWrites, timers, selected, unmounted>>

\* The component is removed: the cleanup of the download effect runs and
\* the state of the component is discarded.  Calls of writeText and timers
\* that are pending stay pending.
Unmount ==
  /\ Interactive
  /\ unmounted' = TRUE
  /\ objectUrls' = revokeObjectURL(objectUrls, urlToRevoke)
  /\ urlToRevoke' = <<>>
  /\ systemId' = <<"1">>
  /\ groups' = <<>>
  /\ compact' = TRUE
  /\ copied' = FALSE
  /\ errorMsg' = ""
  /\ testSummary' = ""
  /\ downloadHref' = <<>>
  /\ hrefType' = "null"
  /\ rendered' = NoDeps
  /\ effectDue' = FALSE
  /\ selected' = FALSE
  /\ UNCHANGED <<mounted, call, pendingWrites, timers>>

\* ------------------------------------------------------------------------
\* The handlers of the form
\* ------------------------------------------------------------------------

\* gs.map((row) => row.id === id ? F(row) : row)
MapRow(gs, id, F(_)) == [i \in 1..Len(gs) |-> IF gs[i].id = id THEN F(gs[i]) ELSE gs[i]]

\* System ID input onChange.
SetSystemId(raw) ==
  /\ Interactive
  /\ systemId' = clampNumberOrEmpty(raw, [min |-> Lit(1), max |-> Undefined])
  /\ Render(systemId', groups, compact)
  /\ UNCHANGED <<groups, compact, errorMsg, testSummary, mounted, call, exportVars>>

\* Compact JSON switch: onCheckedChange(!checked).
ToggleCompact ==
  /\ Interactive
  /\ compact' = ~compact
  /\ Render(systemId, groups, compact')
  /\ UNCHANGED <<systemId, groups, errorMsg, testSummary, mounted, call, exportVars>>

\* Remove group button of the row with this id.
RemoveGroup(id) ==
  LET Keep(row) == row.id # id
  IN  /\ Interactive
      /\ groups' = SelectSeq(groups, Keep)
      /\ Render(systemId, groups', compact)
      /\ UNCHANGED <<systemId, compact, errorMsg, testSummary, mounted, call, exportVars>>

\* Mutant of EditTemperature: the typed value is written to every row.
EditTemperatureAll(id, raw) ==
  /\ Interactive
  /\ FormSize(groups) <= MaxFormSize
  /\ groups' = [i \in 1..Len(groups) |->
                  [groups[i] EXCEPT !.temperature = clampNumberOrEmpty(raw, NoOpts)]]
  /\ Render(systemId, groups', compact)
  /\ UNCHANGED <<systemId, compact, errorMsg, testSummary, mounted, call, exportVars>>

\* Temperature input onChange of the row with this id.
EditTemperature(id, raw) ==
  LET Edit(row) == [row EXCEPT !.temperature = clampNumberOrEmpty(raw, NoOpts)]
  IN  /\ Interactive
      /\ FormSize(groups) <= MaxFormSize
      /\ groups' = MapRow(groups, id, Edit)
      /\ Render(systemId, groups', compact)
      /\ UNCHANGED <<systemId, compact, errorMsg, testSummary, mounted, call, exportVars>>

\* Add humidity button of the row with this id.
AddHumidity(id) ==
  LET Add(row) ==
        [row EXCEPT !.humidities = Append(@, [id |-> uid(UsedIds(groups)), nominal |-> <<>>])]
  IN  /\ Interactive
      /\ FormSize(groups) < MaxFormSize
      /\ groups' = MapRow(groups, id, Add)
      /\ Render(systemId, groups', compact)
      /\ UNCHANGED <<systemId, compact, errorMsg, testSummary, mounted, call, exportVars>>

\* Humidity input onChange of entry hid in the row gid.
EditHumidity(gid, hid, raw) ==
  LET v == clampNumberOrEmpty(raw, [min |-> Lit(0), max |-> Lit(100)])
      EditEntry(hs) == [j \in 1..Len(hs) |-> IF hs[j].id = hid THEN [hs[j] EXCEPT !.nominal = v] ELSE hs[j]]
      Edit(row) == [row EXCEPT !.humidities = EditEntry(@)]
  IN  /\ Interactive
      /\ FormSize(groups) <= MaxFormSize
      /\ groups' = MapRow(groups, gid, Edit)
      /\ Render(systemId, groups', compact)
      /\ UNCHANGED <<systemId, compact, errorMsg, testSummary, mounted, call, exportVars>>

\* Remove RH button of entry hid in the row gid.
RemoveHumidity(gid, hid) ==
  LET Keep(hh) == hh.id # hid
      Edit(row) == [row EXCEPT !.humidities = SelectSeq(@, Keep)]
  IN  /\ Interactive
      /\ groups' = MapRow(groups, gid, Edit)
      /\ Render(systemId, groups', compact)
      /\ UNCHANGED <<systemId, compact, errorMsg, testSummary, mounted, call, exportVars>>

\* Add setpoint group button.
AddGroup ==
  /\ Interactive
  /\ FormSize(groups) < MaxFormSize
  /\ groups' = Append(groups, [id |-> uid(UsedIds(groups)), temperature |-> <<>>,
                               humidities |-> <<>>])
  /\ Render(systemId, groups', compact)
  /\ UNCHANGED <<systemId, compact, errorMsg, testSummary, mounted, call, exportVars>>

\* Quick add 40 C / 33 %RH button.
QuickAdd33 ==
  LET g == uid(UsedIds(groups))
      h == uid(UsedIds(groups) \cup {g})
  IN  /\ Interactive
      /\ FormSize(groups) < MaxFormSize
      /\ groups' = Append(groups,
           [id |-> g, temperature |-> <<"4", "0", ".", "0">>,
            humidities |-> << [id |-> h, nominal |-> <<"3", "3", ".", "0">>] >>])
      /\ Render(systemId, groups', compact)
      /\ UNCHANGED <<systemId, compact, errorMsg, testSummary, mounted, call, exportVars>>

\* Quick add 40 C / 33 & 80 %RH button.
QuickAdd33And80 ==
  LET g  == uid(UsedIds(groups))
      h1 == uid(UsedIds(groups) \cup {g})
      h2 == uid(UsedIds(groups) \cup {g, h1})
  IN  /\ Interactive
      /\ FormSize(groups) < MaxFormSize
      /\ groups' = Append(groups,
           [id |-> g, temperature |-> <<"4", "0", ".", "0">>,
            humidities |-> << [id |-> h1, nominal |-> <<"3", "3", ".", "0">>],
                              [id |-> h2, nominal |-> <<"8", "0", ".", "0">>] >>])
      /\ Render(systemId, groups', compact)
      /\ UNCHANGED <<systemId, compact, errorMsg, testSummary, mounted, call, exportVars>>

sampleGroups ==
  << [id |-> 1, temperature |-> <<"-", "9", "5", ".", "0">>, humidities |-> <<>>],
     [id |-> 2, temperature |-> <<"0", ".", "0">>, humidities |-> <<>>],
     [id |-> 3, temperature |-> <<"1", "4", "0", ".", "0">>, humidities |-> <<>>],
     [id |-> 4, temperature |-> <<"4", "0", ".", "0">>,
      humidities |-> << [id |-> 5, nominal |-> <<"3", "3", ".", "0">>],
                        [id |-> 6, nominal |-> <<"8", "0", ".", "0">>] >>] >>

loadSampleFromConversation ==
  /\ Interactive
  /\ systemId' = <<"1">>
  /\ groups' = sampleGroups
  /\ Render(systemId', groups', compact)
  /\ UNCHANGED <<compact, errorMsg, testSummary, mounted, call, exportVars>>

resetAll ==
  /\ Interactive
  /\ systemId' = <<"1">>
  /\ groups' = << [id |-> 1, temperature |-> <<>>, humidities |-> <<>>] >>
  /\ errorMsg' = ""
  /\ Render(systemId', groups', compact)
  /\ UNCHANGED <<compact, testSummary, mounted, call, exportVars>>

\* Mutant of linkHref: the stored href is shown whatever the readiness.
linkHrefStored == downloadHref

\* The href of the download anchor in the render on display (no href is the
\* empty text): isPayloadReady && downloadHref ? downloadHref : undefined.
linkHref ==
  IF rendered.isPayloadReady /\ downloadHref # <<>> THEN downloadHref ELSE <<>>

\* ------------------------------------------------------------------------
\* handleCopy
\* ------------------------------------------------------------------------

CompleteMsg == "Complete at least one valid setpoint before copying."

\* The dash and the command sign of the source text are written in ASCII.
BlockedMsg == "Clipboard blocked. Output selected, press Ctrl+C (Windows) or Cmd+C (Mac) to copy."

\* seq without its i-th element.
RemoveAt(seq, i) == SubSeq(seq, 1, i - 1) \o SubSeq(seq, i + 1, Len(seq))

\* Mutant of refuseCopy: the refusal shows no message.
refuseCopySilently ==
  /\ errorMsg' = ""
  /\ UNCHANGED <<copied, pendingWrites, timers, selected>>

\* The early return of handleCopy: the form is not export-ready.
refuseCopy ==
  /\ errorMsg' = CompleteMsg
  /\ UNCHANGED <<copied, pendingWrites, timers, selected>>

\* Mutant of awaitWriteText: the compact encoding is written whatever the
\* text on display.
awaitWriteTextCompact(textToCopy) ==
  /\ errorMsg' = ""
  /\ pendingWrites' = Append(pendingWrites,
                             JSONstringify(buildPayload(parsedSystemId(systemId), groups)))
  /\ UNCHANGED <<copied, timers, selected>>

\* const textToCopy = jsonString; await navigator.clipboard.writeText(textToCopy):
\* the call is made and handleCopy waits for its promise.
awaitWriteText(textToCopy) ==
  /\ errorMsg' = ""
  /\ pendingWrites' = Append(pendingWrites, textToCopy)
  /\ UNCHANGED <<copied, timers, selected>>

\* Mutant of selectFallback: the copied flag is left as it is.
selectFallbackKeepsCopied ==
  /\ copied' = copied
  /\ errorMsg' = IF unmounted THEN errorMsg ELSE BlockedMsg
  /\ selected' = ~unmounted

\* The fallback: focus and select the output area, setCopied(false) and the
\* prompt.  focus() and select() of a textarea do not throw, so the catch of
\* the fallback is not entered; without the textarea (the component is
\* unmounted) nothing is selected and the state setters do nothing.
selectFallback ==
  /\ copied' = FALSE
  /\ errorMsg' = IF unmounted THEN errorMsg ELSE BlockedMsg
  /\ selected' = ~unmounted

\* handleCopy up to its await.  It reads isPayloadReady and jsonString of the
\* render on display.  navigator.clipboard is absent, or writeText throws
\* at once, or writeText returns a promise.
handleCopy ==
  /\ Interactive
  /\ Len(pendingWrites) + timers < MaxPending
  /\ IF ~rendered.isPayloadReady THEN refuseCopy
     ELSE \/ awaitWriteText(rendered.jsonString)
          \/ (selectFallback /\ UNCHANGED <<pendingWrites, timers>>)
  /\ UNCHANGED <<systemId, groups, compact, testSummary, mounted, call, rendered, effectDue,
                 effectVars, unmounted>>

\* A render other than the last one is never committed between a render
\* and its effects, nor is a promise or a timer served.
Settled == ~mounted \/ unmounted \/ ~effectDue

\* The i-th awaited writeText succeeded: setCopied(true) and the timer.
WriteResolved(i) ==
  /\ Settled
  /\ pendingWrites' = RemoveAt(pendingWrites, i)
  /\ copied' = ~unmounted
  /\ timers' = timers + 1
  /\ UNCHANGED <<systemId, groups, compact, errorMsg, testSummary, mounted, call, rendered,
                 effectDue, effectVars, selected, unmounted>>

\* The i-th awaited writeText failed: the catch, then the fallback.
WriteRejected(i) ==
  /\ Settled
  /\ pendingWrites' = RemoveAt(pendingWrites, i)
  /\ selectFallback
  /\ UNCHANGED <<systemId, groups, compact, testSummary, mounted, call, rendered,
                 effectDue, effectVars, timers, unmounted>>

\* setTimeout(() => setCopied(false), 1200) fires.
CopiedTimeout ==
  /\ Settled
  /\ timers > 0
  /\ timers' = timers - 1
  /\ copied' = FALSE
  /\ UNCHANGED <<systemId, groups, compact, errorMsg, testSummary, mounted, call, rendered,
                 effectDue, effectVars, pendingWrites, selected, unmounted>>

\* The rows and entries on display, each with its own buttons and inputs.
GroupIds == {groups[i].id : i \in 1..Len(groups)}

EntryIds == {<<groups[i].id, h>> : i \in 1..Len(groups), h \in UsedIds(groups)} \cap
            UNION {{<<groups[i].id, h>> : h \in HumidityIds(groups[i])} : i \in 1..Len(groups)}

Next ==
  \/ Mount
  \/ DownloadEffect
  \/ Unmount
  \/ runSelfChecks
  \/ \E raw \in SystemIdTyped : SetSystemId(raw)
  \/ ToggleCompact
  \/ \E id \in GroupIds : RemoveGroup(id)
  \/ \E id \in GroupIds, raw \in TemperatureTyped : EditTemperature(id, raw)
  \/ \E id \in GroupIds : AddHumidity(id)
  \/ \E e \in EntryIds, raw \in HumidityTyped : EditHumidity(e[1], e[2], raw)
  \/ \E e \in EntryIds : RemoveHumidity(e[1], e[2])
  \/ AddGroup
  \/ QuickAdd33
  \/ QuickAdd33And80
  \/ loadSampleFromConversation
  \/ resetAll

Spec == Init /\ [][Next]_vars

\* The copy to the clipboard, over the form driven by the handlers that
\* change what is copied: the system id, the compact switch, the sample and
\* the reset.
NextCopy ==
  \/ Mount
  \/ DownloadEffect
  \/ Unmount
  \/ \E raw \in SystemIdTyped : SetSystemId(raw)
  \/ ToggleCompact
  \/ loadSampleFromConversation
  \/ resetAll
  \/ handleCopy
  \/ \E i \in 1..Len(pendingWrites) : WriteResolved(i)
  \/ \E i \in 1..Len(pendingWrites) : WriteRejected(i)
  \/ CopiedTimeout

SpecCopy == Init /\ [][NextCopy]_vars

\* ------------------------------------------------------------------------
\* Direct calls of the pure functions, on inputs drawn within the bounds
\* ------------------------------------------------------------------------

CallBuildPayload(sid, gs) ==
  /\ call' = [fn |-> "buildPayload", systemId |-> sid, groups |-> gs,
              result |-> buildPayload(sid, gs)]
  /\ UNCHANGED formVars

\* The derived values of one render (useMemo): parsedSystemId, isFormValid,
\* payload and isPayloadReady of a form state.
DeriveReady(sidText, gs, pid, valid, payload) ==
  /\ call' = [fn |-> "derive", systemId |-> sidText, groups |-> gs,
              parsedSystemId |-> pid, isFormValid |-> valid, payload |-> payload,
              isPayloadReady |-> isPayloadReady(valid, payload)]
  /\ UNCHANGED formVars

DeriveParsed(sidText, gs, pid) ==
  DeriveReady(sidText, gs, pid, isFormValid(pid, gs), buildPayload(pid, gs))

Derive(sidText, gs) == DeriveParsed(sidText, gs, parsedSystemId(sidText))

CallClamp(v, opts) ==
  /\ call' = [fn |-> "clampNumberOrEmpty", v |-> v, opts |-> opts,
              result |-> clampNumberOrEmpty(v, opts)]
  /\ UNCHANGED formVars

\* Each behaviour makes one call, from the state after construction.
BuildWide ==
  /\ call = NoCall
  /\ \E sid \in SysIdSamples, gs \in WideInputs : CallBuildPayload(sid, gs)

BuildDeep ==
  /\ call = NoCall
  /\ \E sid \in DeepSysIdSamples, gs \in DeepInputs : CallBuildPayload(sid, gs)

DeriveWide ==
  /\ call = NoCall
  /\ \E sidText \in SystemIdTexts, gs \in WideInputs : Derive(sidText, gs)

DeriveDeep ==
  /\ call = NoCall
  /\ \E sidText \in DeepSystemIdTexts, gs \in DeepInputs : Derive(sidText, gs)

Clamp ==
  /\ call = NoCall
  /\ \E v \in ClampTexts, opts \in ClampOpts : CallClamp(v, opts)

NextCalls == BuildWide \/ BuildDeep \/ DeriveWide \/ DeriveDeep \/ Clamp

SpecCalls == Init /\ [][NextCalls]_vars

\* ------------------------------------------------------------------------
\* Properties of buildPayload
\* ------------------------------------------------------------------------

IsBuildCall == call.fn = "buildPayload"

FiniteText(v) == NumberIsFinite(Number(v))

\* The positions of the groups whose temperature parses to a finite number,
\* in increasing order, from position i on.
RECURSIVE FinitePositions(_, _)
FinitePositions(gs, i) ==
  IF i > Len(gs) THEN <<>>
  ELSE (IF FiniteText(gs[i].temperature) THEN <<i>> ELSE <<>>) \o FinitePositions(gs, i + 1)

\* A humidity text that is non-empty, parses to a finite number and lies in
\* [0, 100], both ends included.
HumidityKept(v) ==
  /\ v # <<>>
  /\ FiniteText(v)
  /\ ~Less(Number(v), Lit(0))
  /\ ~Less(Lit(100), Number(v))

RECURSIVE KeptHumidityTexts(_, _)
KeptHumidityTexts(hs, j) ==
  IF j > Len(hs) THEN <<>>
  ELSE (IF HumidityKept(hs[j].nominal) THEN <<hs[j].nominal>> ELSE <<>>)
       \o KeptHumidityTexts(hs, j + 1)

Nominals(sp) == [r \in 1..Len(sp) |-> sp[r].nominal]

Parsed(texts) == [j \in 1..Len(texts) |-> Number(texts[j])]

\* C1: buildPayload emits one Setpoint for each group whose temperature
\* parses (as Number() parses) to a finite number, headed by that number, and
\* nothing for any other group.
SetpointsMatch(gs, result, pos) ==
  /\ Len(result) = Len(pos)
  /\ \A k \in 1..Len(pos) :
       /\ Len(result[k]) >= 1
       /\ result[k][1].nominal = Number(gs[pos[k]].temperature)

C1_SetpointIffFiniteTemperature ==
  IsBuildCall => SetpointsMatch(call.groups, call.result, FinitePositions(call.groups, 1))

\* C1 witness: a call with two groups of which exactly one yields a Setpoint.
C1_Witness ==
  /\ IsBuildCall
  /\ Len(call.groups) = 2
  /\ ~FiniteText(call.groups[1].temperature)
  /\ FiniteText(call.groups[2].temperature)
  /\ Len(call.result) = 1

\* C2: in a group that yields a Setpoint, the Humidity readings are those of
\* the entries that are non-empty, finite and within [0, 100] (0 and 100
\* included), one reading per such entry and none for any other entry.
HumiditiesMatch(gs, result, pos) ==
  \A k \in 1..Len(pos) :
    Nominals(Tail(result[k])) = Parsed(KeptHumidityTexts(gs[pos[k]].humidities, 1))

C2_HumidityIffInRange ==
  IsBuildCall /\ Len(call.result) = Len(FinitePositions(call.groups, 1))
    => HumiditiesMatch(call.groups, call.result, FinitePositions(call.groups, 1))

\* C2 witness: a group whose entries 0 and 100 are kept and whose third
\* entry, out of range, is dropped.
C2_Witness ==
  /\ IsBuildCall
  /\ Len(call.groups) = 1
  /\ Len(call.result) = 1
  /\ Len(call.groups[1].humidities) = 3
  /\ call.groups[1].humidities[1].nominal = <<"0">>
  /\ call.groups[1].humidities[2].nominal = <<"1", "2", "0">>
  /\ call.groups[1].humidities[3].nominal = <<"1", "0", "0">>
  /\ Nominals(call.result[1]) = <<Number(call.groups[1].temperature), Lit(0), Lit(100)>>

\* The payload as the data model describes it: the groups with a finite
\* temperature in input order, each a Temperature reading followed by the
\* kept humidities in entry order.
ExpectedSetpoint(sid, g) ==
  <<Reading(sid, "Temperature", Number(g.temperature))>>
  \o [j \in 1..Len(KeptHumidityTexts(g.humidities, 1)) |->
        Reading(sid, "Humidity", Number(KeptHumidityTexts(g.humidities, 1)[j]))]

ExpectedPayload(sid, gs) ==
  [k \in 1..Len(FinitePositions(gs, 1)) |-> ExpectedSetpoint(sid, gs[FinitePositions(gs, 1)[k]])]

\* C3: the output never grows and keeps the input order of groups and of
\* humidities; equal values are neither merged nor sorted.
C3_OrderPreserved ==
  IsBuildCall =>
    /\ Len(call.result) <= Len(call.groups)
    /\ call.result = ExpectedPayload(call.systemId, call.groups)

\* C3 witness: two equal humidities after a larger one, all three kept in the
\* order of entry.
C3_Witness ==
  /\ IsBuildCall
  /\ Len(call.result) = 1
  /\ Len(call.result[1]) = 4
  /\ Nominals(Tail(call.result[1])) = <<Lit(100), Lit(33), Lit(33)>>

\* The payloads returned by buildPayload in the last call: its result, or
\* the payload derived for a form state.
ReturnedPayloads ==
  IF call.fn = "buildPayload" THEN {call.result}
  ELSE IF call.fn = "derive" THEN {call.payload}
  ELSE {}

\* C4: every Setpoint is non-empty, starts with its one Temperature reading
\* and continues with Humidity readings only.
C4_TemperatureFirst ==
  \A payload \in ReturnedPayloads : \A k \in 1..Len(payload) :
    /\ Len(payload[k]) >= 1
    /\ payload[k][1].parameter = "Temperature"
    /\ \A r \in 2..Len(payload[k]) : payload[k][r].parameter = "Humidity"

\* C4 witness: a Setpoint of a Temperature and two Humidity readings.
C4_Witness ==
  /\ IsBuildCall
  /\ Len(call.result) = 1
  /\ Len(call.result[1]) = 3
  /\ call.result[1][3].parameter = "Humidity"

\* C5: every Reading carries the systemId argument as it was given, zero,
\* negative and non-finite values included, and the call returns its result.
C5_SystemIdVerbatim ==
  IsBuildCall =>
    /\ Len(call.result) = Len(FinitePositions(call.groups, 1))
    /\ \A k \in 1..Len(call.result) : \A r \in 1..Len(call.result[k]) :
         call.result[k][r].system_id = call.systemId

\* C5 witness: a NaN systemId carried by a Temperature and a Humidity reading.
C5_Witness ==
  /\ IsBuildCall
  /\ call.systemId = NaN
  /\ Len(call.result) = 1
  /\ Len(call.result[1]) = 2
  /\ call.result[1][2].system_id = NaN

\* ------------------------------------------------------------------------
\* Properties of the validity gate
\* ------------------------------------------------------------------------

IsDerive == call.fn = "derive"

HumidityAccepted(v) == v = <<>> \/ HumidityKept(v)

GroupAccepted(g) ==
  /\ g.temperature # <<>>
  /\ FiniteText(g.temperature)
  /\ \A j \in 1..Len(g.humidities) : HumidityAccepted(g.humidities[j].nominal)

GateHolds(pid, gs) ==
  /\ NumberIsFinite(pid)
  /\ Less(Lit(0), pid)
  /\ \A i \in 1..Len(gs) : GroupAccepted(gs[i])

\* C6: isFormValid is true exactly when the parsed system id is finite and
\* greater than zero, every temperature is non-empty and finite, and every
\* non-empty humidity is finite and within [0, 100].
C6_GateIffAllFieldsValid ==
  IsDerive => (call.isFormValid <=> GateHolds(call.parsedSystemId, call.groups))

\* C6 witness: a valid form with an empty humidity entry next to a filled one.
C6_Witness ==
  /\ IsDerive
  /\ call.isFormValid
  /\ Len(call.groups) = 1
  /\ Len(call.groups[1].humidities) = 2
  /\ call.groups[1].humidities[1].nominal = <<>>
  /\ call.groups[1].humidities[2].nominal = <<"1", "0", "0">>

\* C7: export-ready holds exactly when the form is valid and has a group.
C7_ReadyIffValidAndNonEmpty ==
  IsDerive => (call.isPayloadReady <=> (call.isFormValid /\ Len(call.groups) > 0))

\* C7 witness: a valid form of two groups, the first of white space only,
\* that is export-ready.
C7_Witness ==
  /\ IsDerive
  /\ call.isFormValid
  /\ call.isPayloadReady
  /\ Len(call.groups) = 2
  /\ call.groups[1].temperature = <<" ">>

\* The positions of the groups whose temperature, white space apart, is a
\* non-empty text of a finite number.
StrictPositions(gs) ==
  {i \in 1..Len(gs) : Trim(gs[i].temperature) # <<>> /\ FiniteText(gs[i].temperature)}

\* C16: buildPayload parses strictly: a group whose temperature is empty or
\* of white space only yields no Setpoint, so the payload has one Setpoint
\* for each group with a non-blank finite temperature and no other.
C16_StrictTemperatureParse ==
  IsBuildCall => Len(call.result) = Cardinality(StrictPositions(call.groups))

RECURSIVE NonEmptyNominals(_, _)
NonEmptyNominals(hs, j) ==
  IF j > Len(hs) THEN <<>>
  ELSE (IF hs[j].nominal # <<>> THEN <<hs[j].nominal>> ELSE <<>>)
       \o NonEmptyNominals(hs, j + 1)

\* The Setpoint sp holds the temperature of g and one Humidity reading for
\* each non-empty humidity entry of g, in entry order.
NothingDropped(g, sp) ==
  /\ Len(sp) = 1 + Len(NonEmptyNominals(g.humidities, 1))
  /\ sp[1].nominal = Number(g.temperature)
  /\ Nominals(Tail(sp)) = Parsed(NonEmptyNominals(g.humidities, 1))

\* C17: on a valid form the payload has one Setpoint per group, in group
\* order, each with one Humidity reading per non-empty humidity entry.
C17_ValidFormDropsNothing ==
  IsDerive /\ call.isFormValid =>
    /\ Len(call.payload) = Len(call.groups)
    /\ \A i \in 1..Len(call.groups) : NothingDropped(call.groups[i], call.payload[i])

\* C17 witness: a valid group with the entries 100, empty and 0, exported
\* as a Temperature and the two Humidity readings 100 and 0.
C17_Witness ==
  /\ IsDerive
  /\ call.isFormValid
  /\ Len(call.groups) = 1
  /\ Len(call.groups[1].humidities) = 3
  /\ call.groups[1].humidities[1].nominal = <<"1", "0", "0">>
  /\ call.groups[1].humidities[2].nominal = <<>>
  /\ call.groups[1].humidities[3].nominal = <<"0">>
  /\ Len(call.payload) = 1
  /\ Nominals(Tail(call.payload[1])) = <<Lit(100), Lit(0)>>

\* ------------------------------------------------------------------------
\* Properties of clampNumberOrEmpty
\* ------------------------------------------------------------------------

IsClampCall == call.fn = "clampNumberOrEmpty"

\* The editing states: the empty text, a bare minus sign, a bare point.
PassThrough(v) == v \in { <<>>, <<"-">>, <<".">> }

\* C8: the editing states are returned unchanged, with or without bounds.
C8_EditingStatesUnchanged ==
  IsClampCall /\ PassThrough(call.v) => call.result = call.v

BelowMin(n, opts) == opts.min # Undefined /\ Less(n, opts.min)

AboveMax(n, opts) == opts.max # Undefined /\ Less(opts.max, n)

\* The number that the result of clamping n denotes.
ClampedNumber(n, opts) ==
  IF BelowMin(n, opts) THEN opts.min
  ELSE IF AboveMax(n, opts) THEN opts.max
  ELSE n

WithinBounds(n, opts) ==
  /\ opts.min # Undefined => ~Less(n, opts.min)
  /\ opts.max # Undefined => ~Less(opts.max, n)

\* C9: outside the editing states the result is empty when the text is not
\* a number, and otherwise the canonical text of the parsed number brought
\* within the bounds; a non-empty result reads back as a number within them.
C9_ClampedCanonical ==
  IsClampCall /\ ~PassThrough(call.v) =>
    IF NumberIsNaN(Number(call.v)) THEN call.result = <<>>
    ELSE /\ call.result = String(ClampedNumber(Number(call.v), call.opts))
         /\ call.result # <<>>
         /\ Number(call.result) = ClampedNumber(Number(call.v), call.opts)
         /\ WithinBounds(Number(call.result), call.opts)

\* C9 witness: 150 under the bounds 0..100 gives 100.
C9_Witness ==
  /\ IsClampCall
  /\ call.v = <<"1", "5", "0">>
  /\ call.opts = [min |-> Lit(0), max |-> Lit(100)]
  /\ call.result = <<"1", "0", "0">>

\* ------------------------------------------------------------------------
\* Properties of runSelfChecks
\* ------------------------------------------------------------------------

\* C10: each of the six cases returns its expected payload, and once
\* runSelfChecks has run the summary of the mounted component is the 6/6
\* pass, in every form state.
C10_SelfChecksPass ==
  /\ buildPayload(Lit(1), t1Groups) = expect1
  /\ buildPayload(Lit(1), t2Groups) = expect2
  /\ buildPayload(Lit(2), t3Groups) = expect3
  /\ buildPayload(Lit(3), t4Groups) = expect4
  /\ buildPayload(Lit(4), t5Groups) = expect5
  /\ buildPayload(Lit(5), t6Groups) = expect6
  /\ testSummary \in {"", "Self-checks passed (6/6)."}
  /\ (mounted /\ ~unmounted) => testSummary = "Self-checks passed (6/6)."

\* C10 witness: the pass summary on display over the loaded sample.
C10_Witness ==
  /\ mounted
  /\ testSummary = "Self-checks passed (6/6)."
  /\ groups = sampleGroups

\* ------------------------------------------------------------------------
\* Properties of the form state
\* ------------------------------------------------------------------------

\* The payload exported for the form state.
PayloadNow == buildPayload(parsedSystemId(systemId), groups)

IsInteger(n) == NumberIsFinite(n) /\ n.x >= 0

ReadingTyped(r) == IsInteger(r.system_id) /\ NumberIsFinite(r.nominal)

AllTyped(payload) ==
  \A k \in 1..Len(payload) : \A r \in 1..Len(payload[k]) : ReadingTyped(payload[k][r])

\* C15: in every export-ready state of the form, every Reading of the
\* payload has an integer system_id and a finite nominal.
C15_IntegerSystemId ==
  mounted /\ ~unmounted /\ rendered.isPayloadReady => AllTyped(PayloadNow)

\* C18: every humidity field held in the form is empty or the text of a
\* finite number within [0, 100].
C18_HumidityFieldsInRange ==
  \A i \in 1..Len(groups) : \A j \in 1..Len(groups[i].humidities) :
    HumidityAccepted(groups[i].humidities[j].nominal)

\* C18 witness: 150 typed into the entry of a quick-added group, held as
\* the bound 100.
C18_Witness ==
  /\ mounted
  /\ Len(groups) = 1
  /\ groups[1].temperature = <<"4", "0", ".", "0">>
  /\ Len(groups[1].humidities) = 1
  /\ groups[1].humidities[1].nominal = <<"1", "0", "0">>

\* ------------------------------------------------------------------------
\* Properties of the download link
\* ------------------------------------------------------------------------

\* Export-readiness of the form state, computed from the fields.
ReadyNow == DepsIn(systemId, groups, compact).isPayloadReady

\* The download effect has run for the render on display.
EffectDone == mounted /\ ~unmounted /\ ~effectDue

\* C12: the download link carries an href only when the form is
\* export-ready; when it is not, the link has no href, and once the download
\* effect has run the stored href is empty and its type is null.
C12_DownloadOnlyWhenReady ==
  /\ linkHref # <<>> => ReadyNow
  /\ ~ReadyNow => linkHref = <<>>
  /\ EffectDone /\ ~ReadyNow => downloadHref = <<>> /\ hrefType = "null"

\* C12 witness: a render that is no longer export-ready while the href of
\* the earlier render is still stored; the link shows none.
C12_Witness ==
  /\ mounted
  /\ ~unmounted
  /\ effectDue
  /\ ~ReadyNow
  /\ downloadHref # <<>>
  /\ linkHref = <<>>

\* C13: an object URL is revoked when the effect runs again and when the
\* component unmounts: at most one created URL is not revoked, it is the one
\* the next cleanup revokes, and after the unmount none is left.
C13_ObjectUrlsRevoked ==
  /\ Cardinality(objectUrls) <= 1
  /\ \A u \in objectUrls : u.url = urlToRevoke
  /\ unmounted => objectUrls = {}

\* C13 witness: the sample under a system id typed after it was loaded and
\* with the compact switch off, so the effect has run again on a ready form;
\* one object URL is live, that of the text on display.
C13_Witness ==
  /\ EffectDone
  /\ groups = sampleGroups
  /\ systemId = <<"1", ".", "5">>
  /\ ~compact
  /\ hrefType = "blob"
  /\ objectUrls = {[url |-> downloadHref, text |-> rendered.jsonString]}

\* decodeURIComponent of one piece of an encoded JSON text.
DecodePiece(c) ==
  CASE c = "%5B" -> "[" [] c = "%5D" -> "]" [] c = "%7B" -> "{" [] c = "%7D" -> "}"
    [] c = "%2C" -> "," [] c = "%3A" -> ":" [] c = "%20" -> " " [] c = "%0A" -> "\n"
    [] c = "%2B" -> "+"
    [] c = "%22system_id%22" -> "\"system_id\""
    [] c = "%22parameter%22" -> "\"parameter\""
    [] c = "%22nominal%22" -> "\"nominal\""
    [] c = "%22Temperature%22" -> "\"Temperature\""
    [] c = "%22Humidity%22" -> "\"Humidity\""
    [] OTHER -> c

\* What a browser saves from href: the text of the live object behind an
\* object URL (none when the URL is revoked), the decoded text of a data URI.
SavedTexts(href) ==
  IF href[1] = "blob:" THEN {u.text : u \in {v \in objectUrls : v.url = href}}
  ELSE {[i \in 1..(Len(href) - 1) |-> DecodePiece(href[i + 1])]}

\* The encoding of the payload of the form state under its compact setting.
EncodedNow == DepsIn(systemId, groups, compact).jsonString

\* The link on display is enabled and saves the encoding of the form state.
LinkCurrent == linkHref # <<>> => SavedTexts(linkHref) = {EncodedNow}

\* C20, as stated: whenever the download link is enabled its href is a live
\* object URL or a data URI whose content is the encoding of the current
\* payload under the current compact setting.
C20_LinkAlwaysCurrent == LinkCurrent

\* C20, amended: the same once the download effect has run for the render
\* on display; in the render before it the link still carries the href of
\* the earlier form state.
C20_LinkCurrentAfterEffect == EffectDone => LinkCurrent

\* C20 witness: after the effect, an enabled link with a data URI of the
\* indented text of the form state.
C20_Witness ==
  /\ EffectDone
  /\ ~compact
  /\ hrefType = "data"
  /\ linkHref # <<>>
  /\ SavedTexts(linkHref) = {EncodedNow}

\* ------------------------------------------------------------------------
\* Properties of handleCopy
\* ------------------------------------------------------------------------

\* C11: handleCopy invoked on a form that is not export-ready refuses: it
\* calls no writeText, selects nothing, shows a message, and leaves the
\* copied flag, the system id and the groups as they were.
C11_CopyRefusedWhenNotReady ==
  [][ handleCopy /\ ~rendered.isPayloadReady =>
        /\ errorMsg' # ""
        /\ UNCHANGED <<pendingWrites, selected, copied, systemId, groups>> ]_vars

\* C11 witness: the refusal on display over a form that is not export-ready.
C11_Witness ==
  /\ Interactive
  /\ ~rendered.isPayloadReady
  /\ errorMsg = CompleteMsg

\* The step of handleCopy that finds no usable navigator.clipboard, or whose
\* writeText throws at once, on an export-ready form.
CopyWithoutClipboard ==
  /\ handleCopy
  /\ rendered.isPayloadReady
  /\ pendingWrites' = pendingWrites

\* C14: on an export-ready form, handleCopy without a usable clipboard, and
\* the rejection of an awaited writeText while the component is mounted,
\* end in the fallback: copied is false, the prompt to copy by hand is
\* shown, the output is selected and the form is as it was.  The copied
\* flag only turns true where an awaited writeText resolves.
C14_FallbackOnClipboardFailure ==
  [][ /\ (CopyWithoutClipboard \/ (~unmounted /\ \E i \in 1..Len(pendingWrites) : WriteRejected(i)))
           => /\ copied' = FALSE
              /\ errorMsg' = BlockedMsg
              /\ selected'
              /\ UNCHANGED <<systemId, groups, compact>>
      /\ (~copied /\ copied') => \E i \in 1..Len(pendingWrites) : WriteResolved(i) ]_vars

\* C14 witness: the fallback on display over an export-ready form, after an
\* earlier copy that succeeded (its timer has not fired yet).
C14_Witness ==
  /\ Interactive
  /\ rendered.isPayloadReady
  /\ errorMsg = BlockedMsg
  /\ selected
  /\ ~copied
  /\ timers > 0

\* C19: the text handed to writeText is the encoding of the form as it is
\* when handleCopy is invoked, on an export-ready form; every other step
\* leaves the texts in flight as they are or settles one of them.
C19_WrittenTextIsTextAtInvocation ==
  [][ \/ pendingWrites' = pendingWrites
      \/ \E i \in 1..Len(pendingWrites) : pendingWrites' = RemoveAt(pendingWrites, i)
      \/ /\ handleCopy
         /\ ReadyNow
         /\ pendingWrites' = Append(pendingWrites, EncodedNow) ]_vars

\* C19 witness: a write in flight whose text is no longer the text on
\* display, the form having been changed since.
C19_Witness ==
  /\ Interactive
  /\ pendingWrites # <<>>
  /\ pendingWrites[1] # rendered.jsonString
  /\ pendingWrites[1] # <<>>

\* ------------------------------------------------------------------------
\* Frame of the operations that target an id
\* ------------------------------------------------------------------------

\* No two rows or entries of the form carry the same id.
IdsUnique == Cardinality(UsedIds(groups)) = FormSize(groups)

\* Every row but the one with this id is as it was, at its position, and
\* the row with this id keeps its id.
OtherRowsKept(id) ==
  /\ Len(groups') = Len(groups)
  /\ \A i \in 1..Len(groups) :
        /\ groups'[i].id = groups[i].id
        /\ groups[i].id # id => groups'[i] = groups[i]

\* In the row with this id the entries are those of before in their order,
\* save that the nominal of entry hid may differ.
EntriesKeptBut(id, hid) ==
  \A i \in 1..Len(groups) : groups[i].id = id =>
     /\ Len(groups'[i].humidities) = Len(groups[i].humidities)
     /\ \A j \in 1..Len(groups[i].humidities) :
           /\ groups'[i].humidities[j].id = groups[i].humidities[j].id
           /\ groups[i].humidities[j].id # hid =>
                groups'[i].humidities[j] = groups[i].humidities[j]

TemperatureKept(id) ==
  \A i \in 1..Len(groups) : groups[i].id = id => groups'[i].temperature = groups[i].temperature

HumiditiesKept(id) ==
  \A i \in 1..Len(groups) : groups[i].id = id => groups'[i].humidities = groups[i].humidities

\* The row with this id has one more entry, put last, empty, with an id
\* that nothing of the form carried.
EntryAdded(id) ==
  \A i \in 1..Len(groups) : groups[i].id = id =>
     /\ Len(groups'[i].humidities) = Len(groups[i].humidities) + 1
     /\ SubSeq(groups'[i].humidities, 1, Len(groups[i].humidities)) = groups[i].humidities
     /\ groups'[i].humidities[Len(groups'[i].humidities)].nominal = <<>>
     /\ groups'[i].humidities[Len(groups'[i].humidities)].id \notin UsedIds(groups)

\* The row with this id has lost its entry hid and nothing else.
EntryRemoved(id, hid) ==
  \A i \in 1..Len(groups) : groups[i].id = id =>
     \E j \in 1..Len(groups[i].humidities) :
        /\ groups[i].humidities[j].id = hid
        /\ groups'[i].humidities = RemoveAt(groups[i].humidities, j)

\* The form has lost the row with this id and nothing else.
RowRemoved(id) ==
  \E i \in 1..Len(groups) :
     /\ groups[i].id = id
     /\ groups' = RemoveAt(groups, i)

====
